---- MODULE Spec2Model ----
(***************************************************************************)
(* FileWriter of package ingest (src/servers/servers.go): an append-only   *)
(* segment writer with size and timer rotation, an upload pump and a       *)
(* shutdown sequence.                                                      *)
(*                                                                         *)
(* Processes: the callers of Write (Writers), the caller of Rotate         *)
(* (Manual), the caller of Close (Closer), and the two goroutines started  *)
(* by NewFileWriter: rotateOnTimer (Timer) and pushFiles (Pusher).         *)
(* A segment file is named by its number (the ULID of the code); its one   *)
(* write handle is the *os.File that Rotate opened for it.                 *)
(***************************************************************************)
EXTENDS Integers, Sequences, FiniteSets, TLC

\* ---------------------------------------------------------------- bounds
\* What the environment does in one behaviour: calls of Write and of Rotate,
\* ticks of the ticker, and failures of a filesystem, S3 or SQS call.
MaxEvents == 3
\* Config.Ingest.MaxSizeBytes
MaxSizeBytes == 200
\* len(data) of the records the callers write
DataLens == {20, 120}

\* Bytes Write adds to len(data): ,"__row_id":"<26>","__batch_file":"<26>.ndjson"
\* merged into the caller's object by @join.@ugly (91), and the "\n" (1).
MetaOverhead == 92

Writers == {"w1", "w2"}
Timer == "timer"
Pusher == "pusher"
Closer == "closer"
Manual == "manual"
RotCallers == Writers \cup {Timer, Closer, Manual}
Procs == RotCallers \cup {Pusher}
NoProc == "none"
\* Every Rotate(true) call creates at most one segment, after the constructor's.
AllSegIds == 1..(1 + MaxEvents)

VARIABLES
    pc,          \* position of every process
    canWrite,    \* holder of f.canWrite, or NoProc
    rotating,    \* holder of f.rotating, or NoProc
    fd,          \* f.fd: 0 is nil, otherwise the segment the handle was opened on
    segs,        \* every segment ever created: where its file is, its lines, its handle
    s3,          \* object storage: the content last put under each segment's key
    puts,        \* successful PutObject calls per segment
    notifs,      \* successful SendMessage calls per segment
    tickPending, \* a tick is waiting in ticker.C
    stopped,     \* ticker.Stop() was called
    crashed,     \* "none", or how the process died (panic, log.Fatal)
    keepReading, \* pushFiles' local
    entries,     \* pushFiles' local: the directory entries still to handle
    rotSeg,      \* Rotate's locals oldName / filename, per caller
    rotOut,      \* what Rotate returned to a caller that has not finished yet
    wlen,        \* Write's argument len(data), per writer
    wname,       \* Write's local currentFileName, per writer
    wrow,        \* Write's fresh __row_id, per writer
    wopen,       \* f.fd at the moment the writer's Lock() returned, per writer
    wlate,       \* the Write call was made after Close had returned, per writer
    tSeen,       \* rotateOnTimer's fileinfo: the segment and size it saw
    nextRow,     \* ulid source for row ids
    events,      \* environment events so far
    okRows,      \* row ids of the Write calls that returned nil
    finalRot,    \* what Close's Rotate(false) did: "none" before it returned, "moved"
                 \* when it renamed the open segment, else "ok", "err" or "skipped"
    rotFailed,   \* some Rotate call has returned an error
    lastScan,    \* how pushFiles' directory listing after the drain signal went
    rmFailed     \* segments whose os.Remove failed and that are still on disk

vars == <<pc, canWrite, rotating, fd, segs, s3, puts, notifs, tickPending, stopped,
          crashed, keepReading, entries, rotSeg, rotOut, wlen, wname, wrow,
          tSeen, nextRow, events, okRows, finalRot, rotFailed, lastScan, wopen,
          wlate, rmFailed>>

\* ------------------------------------------------------------ pure helpers
RECURSIVE LinesSize(_)
LinesSize(ls) ==
    IF ls = <<>> THEN 0 ELSE Head(ls).len + MetaOverhead + LinesSize(Tail(ls))

\* fileinfo.Size() of a segment file
Size(id) == LinesSize(segs[id].lines)

SegIds == 1..Len(segs)
OpenDir == {id \in SegIds : segs[id].loc = "open"}
ClosedDir == {id \in SegIds : segs[id].loc = "closed"}

\* os.ReadDir returns the entries sorted by file name
RECURSIVE SortedSeq(_)
SortedSeq(S) ==
    IF S = {} THEN <<>>
    ELSE LET m == CHOOSE x \in S : \A y \in S : x <= y
         IN <<m>> \o SortedSeq(S \ {m})

\* A closed handle taken for a working one.
UsableIgnoringClose(h) == h # 0

\* (*os.File).Stat / WriteString / Close work only on a non-nil, not yet closed file
Usable(h) == h # 0 /\ segs[h].hopen

\* Write, line 316
NeedsRotate(size, len) == size + len > MaxSizeBytes

\* The size test turned around: empty segments rotate too.
TimerRotatesAlways(size) == size >= 0

\* The size test against the size limit instead of 0.
TimerRotatesWhenFull(size) == size > MaxSizeBytes

\* rotateOnTimer, line 133
TimerShouldRotate(size) == size > 0

\* The size test lost: nothing is uploaded.
ShouldUploadNever(size) == size < 0

\* The size test turned around: empty files are uploaded too.
ShouldUploadAlways(size) == size >= 0

\* pushFiles, line 217
ShouldUpload(size) == size > 0

\* The rotation lock taken without looking at its holder.
TryLockAlways(holder) == TRUE

\* Rotate, line 242: sync.Mutex.TryLock
TryLockOk(holder) == holder = NoProc

\* Close's final rotation reopening a segment like every other call.
CreateNewAlways(p) == TRUE

\* No call site asking for a new segment.
CreateNewNever(p) == FALSE

\* Rotate's createNew argument at each call site (lines 134, 317, 344)
CreateNew(p) == p # Closer

Alive == crashed = "none"
\* The environment may still act (a call, a tick, a failing system call).
CanAct == events < MaxEvents

Init ==
    /\ pc = [p \in Procs |->
               IF p \in Writers THEN "idle"
               ELSE IF p = Timer THEN "t_wait"
               ELSE IF p = Pusher THEN "p_top"
               ELSE IF p = Closer THEN "c_idle"
               ELSE "m_idle"]
    /\ canWrite = NoProc
    /\ rotating = NoProc
    /\ fd = 1
    /\ segs = <<[loc |-> "open", lines |-> <<>>, hopen |-> TRUE]>>
    /\ s3 = [id \in AllSegIds |-> <<>>]
    /\ puts = [id \in AllSegIds |-> 0]
    /\ notifs = [id \in AllSegIds |-> 0]
    /\ tickPending = FALSE
    /\ stopped = FALSE
    /\ crashed = "none"
    /\ keepReading = TRUE
    /\ entries = <<>>
    /\ rotSeg = [p \in RotCallers |-> 0]
    /\ rotOut = [p \in RotCallers |-> "none"]
    /\ wlen = [w \in Writers |-> 0]
    /\ wname = [w \in Writers |-> 0]
    /\ wrow = [w \in Writers |-> 0]
    /\ tSeen = [seg |-> 0, size |-> 0]
    /\ nextRow = 1
    /\ events = 0
    /\ okRows = {}
    /\ finalRot = "none"
    /\ rotFailed = FALSE
    /\ lastScan = "none"
    /\ wopen = [w \in Writers |-> 0]
    /\ wlate = [w \in Writers |-> FALSE]
    /\ rmFailed = {}

lockV == <<canWrite, rotating>>
fsV == <<fd, segs>>
cloudV == <<s3, puts, notifs>>
tickV == <<tickPending, stopped>>
pushV == <<keepReading, entries, lastScan, rmFailed>>
rotV == <<rotSeg, rotOut, finalRot, rotFailed>>
wV == <<wlen, wname, wrow, wopen, wlate>>

\* ------------------------------------------------------------------ Rotate
\* Where Rotate returns to in each caller.
RetPc(p, err) ==
    IF p \in Writers THEN (IF err THEN "w_fail" ELSE "w_meta")
    ELSE IF p = Timer THEN "t_unlock"
    ELSE IF p = Closer THEN "c_unlock"
    ELSE "m_idle"

\* Rotate returns `out` ("ok", "err" or "skipped") to caller p.
Return(p, out) ==
    /\ pc' = [pc EXCEPT ![p] = RetPc(p, out = "err")]
    /\ rotOut' = [rotOut EXCEPT ![p] = IF p = Manual THEN "none" ELSE out]
    /\ finalRot' = IF p # Closer THEN finalRot
                  ELSE IF out = "ok" /\ rotSeg[p] # 0 THEN "moved" ELSE out
    /\ rotFailed' = (rotFailed \/ out = "err")
    /\ rotSeg' = [rotSeg EXCEPT ![p] = 0]

\* Lines 242-247: TryLock; a held lock makes the call return nil at once.
RotTry(p) ==
    /\ Alive /\ pc[p] = "rot_try"
    /\ IF TryLockOk(rotating)
       THEN /\ rotating' = p
            /\ pc' = [pc EXCEPT ![p] = "rot_close"]
            /\ UNCHANGED rotV
       ELSE /\ Return(p, "skipped")
            /\ UNCHANGED rotating
    /\ UNCHANGED <<canWrite, fsV, cloudV, tickV, pushV, wV, crashed, tSeen, nextRow,
                   events, okRows>>

\* Rotate without line 263: the file is renamed while its handle stays open.
RotCloseKeepsHandle(p) ==
    /\ Alive /\ pc[p] = "rot_close"
    /\ IF fd = 0
       THEN /\ pc' = [pc EXCEPT ![p] = "rot_new"]
            /\ UNCHANGED <<rotating, rotV>>
       ELSE IF segs[fd].hopen
       THEN /\ rotSeg' = [rotSeg EXCEPT ![p] = fd]
            /\ pc' = [pc EXCEPT ![p] = "rot_rename"]
            /\ UNCHANGED <<rotating, rotOut, finalRot, rotFailed>>
       ELSE /\ Return(p, "err")
            /\ rotating' = NoProc
    /\ UNCHANGED <<canWrite, fsV, cloudV, tickV, pushV, wV, crashed, tSeen, nextRow, events,
                   okRows>>

\* Lines 253-267: f.fd != nil, Stat for the file's name, f.fd.Close(). A failing
\* Stat returns before Close; the handle is unusable after Close, also when Close
\* reports an error. An error returns through the deferred Unlock (line 247).
RotClose(p) ==
    /\ Alive /\ pc[p] = "rot_close"
    /\ \/ /\ IF fd = 0
             THEN /\ pc' = [pc EXCEPT ![p] = "rot_new"]
                  /\ UNCHANGED <<rotating, segs, rotV>>
             ELSE IF segs[fd].hopen
             THEN /\ rotSeg' = [rotSeg EXCEPT ![p] = fd]
                  /\ segs' = [segs EXCEPT ![fd].hopen = FALSE]
                  /\ pc' = [pc EXCEPT ![p] = "rot_rename"]
                  /\ UNCHANGED <<rotating, rotOut, finalRot, rotFailed>>
             ELSE /\ Return(p, "err")
                  /\ rotating' = NoProc
                  /\ UNCHANGED segs
          /\ UNCHANGED events
       \/ /\ Usable(fd) /\ CanAct
          /\ events' = events + 1
          /\ \E closed \in BOOLEAN : segs' = [segs EXCEPT ![fd].hopen = ~closed]
          /\ Return(p, "err")
          /\ rotating' = NoProc
    /\ UNCHANGED <<canWrite, fd, cloudV, tickV, pushV, wV, crashed, tSeen, nextRow, okRows>>

\* Lines 269-280: MkdirAll(closed) and Rename(open/<name>, closed/<name>).
RotRename(p) ==
    /\ Alive /\ pc[p] = "rot_rename"
    /\ \/ /\ IF segs[rotSeg[p]].loc = "open"
             THEN /\ segs' = [segs EXCEPT ![rotSeg[p]].loc = "closed"]
                  /\ pc' = [pc EXCEPT ![p] = "rot_new"]
                  /\ UNCHANGED <<rotating, rotV>>
             ELSE /\ Return(p, "err")
                  /\ rotating' = NoProc
                  /\ UNCHANGED segs
          /\ UNCHANGED events
       \/ /\ CanAct
          /\ events' = events + 1
          /\ Return(p, "err")
          /\ rotating' = NoProc
          /\ UNCHANGED segs
    /\ UNCHANGED <<canWrite, fd, cloudV, tickV, pushV, wV, crashed, tSeen, nextRow, okRows>>

\* Lines 283-301: with createNew, MkdirAll(open) and OpenFile of a fresh name;
\* `f.fd, err = os.OpenFile(...)` stores nil in f.fd when OpenFile fails. Then the
\* return through the deferred Unlock.
RotNew(p) ==
    /\ Alive /\ pc[p] = "rot_new"
    /\ \/ /\ IF CreateNew(p) /\ Len(segs) < Cardinality(AllSegIds)
             THEN /\ segs' = Append(segs, [loc |-> "open", lines |-> <<>>, hopen |-> TRUE])
                  /\ fd' = Len(segs) + 1
             ELSE UNCHANGED fsV
          /\ Return(p, "ok")
          /\ UNCHANGED events
       \/ /\ CreateNew(p) /\ CanAct
          /\ events' = events + 1
          /\ \E opened \in BOOLEAN : fd' = IF opened THEN fd ELSE 0
          /\ Return(p, "err")
          /\ UNCHANGED segs
    /\ rotating' = NoProc
    /\ UNCHANGED <<canWrite, cloudV, tickV, pushV, wV, crashed, tSeen, nextRow, okRows>>

Rotate(p) == RotTry(p) \/ RotClose(p) \/ RotRename(p) \/ RotNew(p)

\* ------------------------------------------------------------------- Write
\* The call of Write(data).
WriteCall(w) ==
    /\ Alive /\ pc[w] = "idle"
    /\ CanAct
    /\ events' = events + 1
    /\ \E d \in DataLens : wlen' = [wlen EXCEPT ![w] = d]
    /\ wlate' = [wlate EXCEPT ![w] = (pc[Closer] = "c_returned")]
    /\ pc' = [pc EXCEPT ![w] = "w_lock"]
    /\ UNCHANGED <<lockV, fsV, cloudV, tickV, pushV, rotV, wname, wrow, wopen, crashed,
                   tSeen, nextRow, okRows>>

\* The write lock taken without waiting for its holder.
WriteLockUnguarded(w) ==
    /\ Alive /\ pc[w] = "w_lock"
    /\ canWrite' = w
    /\ wopen' = [wopen EXCEPT ![w] = fd]
    /\ pc' = [pc EXCEPT ![w] = "w_stat"]
    /\ UNCHANGED <<rotating, fsV, cloudV, tickV, pushV, rotV, wlen, wname, wrow, wlate,
                   crashed, tSeen, nextRow, events, okRows>>

\* Line 307: f.canWrite.Lock()
WriteLock(w) ==
    /\ Alive /\ pc[w] = "w_lock"
    /\ canWrite = NoProc
    /\ canWrite' = w
    /\ wopen' = [wopen EXCEPT ![w] = fd]
    /\ pc' = [pc EXCEPT ![w] = "w_stat"]
    /\ UNCHANGED <<rotating, fsV, cloudV, tickV, pushV, rotV, wlen, wname, wrow, wlate,
                   crashed, tSeen, nextRow, events, okRows>>

\* Lines 311-318: Stat, and the size check that calls Rotate(true).
WriteStat(w) ==
    /\ Alive /\ pc[w] = "w_stat"
    /\ \/ /\ pc' = [pc EXCEPT ![w] =
                     IF ~Usable(fd) THEN "w_fail"
                     ELSE IF NeedsRotate(Size(fd), wlen[w]) THEN "rot_try"
                     ELSE "w_meta"]
          /\ UNCHANGED events
       \/ /\ Usable(fd) /\ CanAct
          /\ events' = events + 1
          /\ pc' = [pc EXCEPT ![w] = "w_fail"]
    /\ UNCHANGED <<lockV, fsV, cloudV, tickV, pushV, rotV, wV, crashed, tSeen,
                   nextRow, okRows>>

\* The return of Write with the deferred Unlock (line 308).
WriteReturn(w) ==
    /\ canWrite' = NoProc
    /\ pc' = [pc EXCEPT ![w] = "idle"]
    /\ wlen' = [wlen EXCEPT ![w] = 0]
    /\ wname' = [wname EXCEPT ![w] = 0]
    /\ wrow' = [wrow EXCEPT ![w] = 0]
    /\ wopen' = [wopen EXCEPT ![w] = 0]
    /\ wlate' = [wlate EXCEPT ![w] = FALSE]
    /\ rotOut' = [rotOut EXCEPT ![w] = "none"]

\* Lines 314 and 321: return err (Stat or Rotate failed).
WriteFail(w) ==
    /\ Alive /\ pc[w] = "w_fail"
    /\ WriteReturn(w)
    /\ UNCHANGED <<rotating, fsV, cloudV, tickV, pushV, rotSeg, finalRot, rotFailed, crashed, tSeen,
                   nextRow, events, okRows>>

\* Lines 325-327: the metadata, from f.fd.Name() and a fresh ulid. f.fd.Name() of
\* a nil f.fd is a nil dereference.
WriteMeta(w) ==
    /\ Alive /\ pc[w] = "w_meta"
    /\ IF fd = 0
       THEN /\ crashed' = "write_panic"
            /\ UNCHANGED <<pc, wname, wrow, nextRow>>
       ELSE /\ wname' = [wname EXCEPT ![w] = fd]
            /\ wrow' = [wrow EXCEPT ![w] = nextRow]
            /\ nextRow' = nextRow + 1
            /\ pc' = [pc EXCEPT ![w] = "w_write"]
            /\ UNCHANGED crashed
    /\ UNCHANGED <<lockV, fsV, cloudV, tickV, pushV, rotV, wlen, wopen, wlate, tSeen,
                   events, okRows>>

\* The line Write persists: the caller's data with the two injected fields.
Combined(w) == [row |-> wrow[w], batch |-> wname[w], len |-> wlen[w]]

\* WriteString's error dropped: Write returns nil whatever the write did.
WriteStringUnchecked(w) ==
    /\ Alive /\ pc[w] = "w_write"
    /\ \/ /\ IF Usable(fd)
             THEN segs' = [segs EXCEPT ![fd].lines = Append(@, Combined(w))]
             ELSE UNCHANGED segs
          /\ UNCHANGED events
       \/ /\ Usable(fd) /\ CanAct
          /\ events' = events + 1
          /\ UNCHANGED segs
    /\ okRows' = okRows \cup {wrow[w]}
    /\ WriteReturn(w)
    /\ UNCHANGED <<rotating, fd, cloudV, tickV, pushV, rotSeg, finalRot, rotFailed, crashed, tSeen,
                   nextRow>>

\* Lines 330-335: f.fd.WriteString(combined + "\n") and the return of its error.
WriteString(w) ==
    /\ Alive /\ pc[w] = "w_write"
    /\ \/ /\ IF Usable(fd)
             THEN /\ segs' = [segs EXCEPT ![fd].lines = Append(@, Combined(w))]
                  /\ okRows' = okRows \cup {wrow[w]}
             ELSE UNCHANGED <<segs, okRows>>
          /\ UNCHANGED events
       \/ /\ Usable(fd) /\ CanAct
          /\ events' = events + 1
          /\ UNCHANGED <<segs, okRows>>
    /\ WriteReturn(w)
    /\ UNCHANGED <<rotating, fd, cloudV, tickV, pushV, rotSeg, finalRot, rotFailed, crashed, tSeen,
                   nextRow>>

Write(w) == WriteCall(w) \/ WriteLock(w) \/ WriteStat(w) \/ WriteFail(w)
            \/ WriteMeta(w) \/ WriteString(w)

\* ----------------------------------------------------------- rotateOnTimer
\* time.Ticker: a tick is delivered into ticker.C (capacity 1) until Stop.
Tick ==
    /\ Alive /\ ~stopped /\ ~tickPending
    /\ CanAct
    /\ events' = events + 1
    /\ tickPending' = TRUE
    /\ UNCHANGED <<pc, lockV, fsV, cloudV, stopped, pushV, rotV, wV, crashed, tSeen,
                   nextRow, okRows>>

\* Line 125: case <-f.ticker.C
TimerRecvTick ==
    /\ Alive /\ pc[Timer] = "t_wait" /\ tickPending
    /\ tickPending' = FALSE
    /\ pc' = [pc EXCEPT ![Timer] = "t_lock"]
    /\ UNCHANGED <<lockV, fsV, cloudV, stopped, pushV, rotV, wV, crashed, tSeen,
                   nextRow, events, okRows>>

\* Lines 122-124 with line 340: Close's send on tickerDone meets the select.
TimerRecvDone ==
    /\ Alive /\ pc[Timer] = "t_wait" /\ pc[Closer] = "c_sendTick"
    /\ pc' = [pc EXCEPT ![Timer] = "t_done", ![Closer] = "c_lock"]
    /\ UNCHANGED <<lockV, fsV, cloudV, tickV, pushV, rotV, wV, crashed, tSeen,
                   nextRow, events, okRows>>

\* Line 128
TimerLock ==
    /\ Alive /\ pc[Timer] = "t_lock" /\ canWrite = NoProc
    /\ canWrite' = Timer
    /\ pc' = [pc EXCEPT ![Timer] = "t_stat"]
    /\ UNCHANGED <<rotating, fsV, cloudV, tickV, pushV, rotV, wV, crashed, tSeen,
                   nextRow, events, okRows>>

\* Lines 129-135: Stat; its error is only logged, and fileinfo.Size() of the nil
\* fileinfo is a nil dereference.
TimerStat ==
    /\ Alive /\ pc[Timer] = "t_stat"
    /\ \/ /\ IF Usable(fd)
             THEN /\ tSeen' = [seg |-> fd, size |-> Size(fd)]
                  /\ pc' = [pc EXCEPT ![Timer] =
                             IF TimerShouldRotate(Size(fd)) THEN "rot_try" ELSE "t_unlock"]
                  /\ UNCHANGED crashed
             ELSE /\ crashed' = "timer_panic"
                  /\ UNCHANGED <<pc, tSeen>>
          /\ UNCHANGED events
       \/ /\ Usable(fd) /\ CanAct
          /\ events' = events + 1
          /\ crashed' = "timer_panic"
          /\ UNCHANGED <<pc, tSeen>>
    /\ UNCHANGED <<lockV, fsV, cloudV, tickV, pushV, rotV, wV, nextRow, okRows>>

\* Line 136
TimerUnlock ==
    /\ Alive /\ pc[Timer] = "t_unlock"
    /\ canWrite' = NoProc
    /\ pc' = [pc EXCEPT ![Timer] = "t_wait"]
    /\ tSeen' = [seg |-> 0, size |-> 0]
    /\ rotOut' = [rotOut EXCEPT ![Timer] = "none"]
    /\ UNCHANGED <<rotating, fsV, cloudV, tickV, pushV, rotSeg, finalRot, rotFailed, wV, crashed,
                   nextRow, events, okRows>>

RotateOnTimer == TimerRecvTick \/ TimerRecvDone \/ TimerLock \/ TimerStat \/ TimerUnlock

\* --------------------------------------------------------------- pushFiles
\* The upload error dropped: the file is removed whatever uploadS3File returned.
AfterUploadIgnored(uploadError) == "p_remove"

\* Lines 221-228: what the loop does with uploadS3File's result.
AfterUpload(uploadError) == IF uploadError THEN "fatal" ELSE "p_remove"

\* Lines 231 and 191: after the last entry, the sleep and the loop condition.
LoopPc == IF keepReading' THEN "p_top" ELSE "p_done"

\* Lines 191-206: the non-blocking select on pusherDone, where Close's send
\* (line 353) completes, and os.ReadDir(closed); on a ReadDir error `continue`,
\* which ends the loop when keepReading is already false.
PushScan ==
    /\ Alive /\ pc[Pusher] = "p_top"
    /\ keepReading' = (pc[Closer] # "c_sendPush")
    /\ \/ /\ entries' = SortedSeq(ClosedDir)
          /\ pc' = [pc EXCEPT ![Pusher] = IF ClosedDir = {} THEN LoopPc ELSE "p_entry",
                              ![Closer] = IF keepReading' THEN @ ELSE "c_wait"]
          /\ lastScan' = IF keepReading' THEN lastScan ELSE "ok"
          /\ UNCHANGED events
       \/ /\ CanAct
          /\ events' = events + 1
          /\ pc' = [pc EXCEPT ![Pusher] = LoopPc,
                              ![Closer] = IF keepReading' THEN @ ELSE "c_wait"]
          /\ lastScan' = IF keepReading' THEN lastScan ELSE "failed"
          /\ UNCHANGED entries
    /\ UNCHANGED <<lockV, fsV, cloudV, tickV, rotV, wV, crashed, tSeen, nextRow, okRows,
                   rmFailed>>

\* Lines 208-219: the next entry, e.Info() and the size test. An Info error is
\* only logged, and fileinfo.Size() of the nil fileinfo is a nil dereference.
PushEntry ==
    /\ Alive /\ pc[Pusher] = "p_entry"
    /\ \/ /\ IF segs[Head(entries)].loc = "closed"
             THEN /\ pc' = [pc EXCEPT ![Pusher] =
                             IF ShouldUpload(Size(Head(entries)))
                             THEN "p_put" ELSE "p_remove"]
                  /\ UNCHANGED crashed
             ELSE /\ crashed' = "pusher_panic"
                  /\ UNCHANGED pc
          /\ UNCHANGED events
       \/ /\ CanAct
          /\ events' = events + 1
          /\ crashed' = "pusher_panic"
          /\ UNCHANGED pc
    /\ UNCHANGED <<lockV, fsV, cloudV, tickV, pushV, rotV, wV, tSeen, nextRow, okRows>>

\* uploadS3File returned an error: lines 226-228.
UploadFailed ==
    IF AfterUpload(TRUE) = "fatal"
    THEN crashed' = "pusher_fatal" /\ UNCHANGED pc
    ELSE pc' = [pc EXCEPT ![Pusher] = AfterUpload(TRUE)] /\ UNCHANGED crashed

\* PutObject's error not returned (lines 158-160 lost): the notification is sent
\* whatever PutObject answered.
PushPutUnchecked ==
    /\ Alive /\ pc[Pusher] = "p_put"
    /\ \/ /\ s3' = [s3 EXCEPT ![Head(entries)] = segs[Head(entries)].lines]
          /\ puts' = [puts EXCEPT ![Head(entries)] = @ + 1]
          /\ UNCHANGED events
       \/ /\ CanAct
          /\ events' = events + 1
          /\ UNCHANGED <<s3, puts>>
    /\ pc' = [pc EXCEPT ![Pusher] = "p_send"]
    /\ UNCHANGED <<lockV, fsV, notifs, tickV, pushV, rotV, wV, crashed, tSeen, nextRow,
                   okRows>>

\* Lines 144-160: os.Open and S3.PutObject of the file's content.
PushPut ==
    /\ Alive /\ pc[Pusher] = "p_put"
    /\ \/ /\ s3' = [s3 EXCEPT ![Head(entries)] = segs[Head(entries)].lines]
          /\ puts' = [puts EXCEPT ![Head(entries)] = @ + 1]
          /\ pc' = [pc EXCEPT ![Pusher] = "p_send"]
          /\ UNCHANGED <<events, crashed>>
       \/ /\ CanAct
          /\ events' = events + 1
          /\ UploadFailed
          /\ UNCHANGED <<s3, puts>>
    /\ UNCHANGED <<lockV, fsV, notifs, tickV, pushV, rotV, wV, tSeen, nextRow, okRows>>

\* Lines 162-183: SQS.SendMessage of the notification; then lines 221-228.
PushSend ==
    /\ Alive /\ pc[Pusher] = "p_send"
    /\ \/ /\ notifs' = [notifs EXCEPT ![Head(entries)] = @ + 1]
          /\ pc' = [pc EXCEPT ![Pusher] = AfterUpload(FALSE)]
          /\ UNCHANGED <<events, crashed>>
       \/ /\ CanAct
          /\ events' = events + 1
          /\ UploadFailed
          /\ UNCHANGED notifs
    /\ UNCHANGED <<lockV, fsV, s3, puts, tickV, pushV, rotV, wV, tSeen, nextRow, okRows>>

\* The loop without line 221: the uploaded file is left where it is.
PushRemoveSkipped ==
    /\ Alive /\ pc[Pusher] = "p_remove"
    /\ entries' = Tail(entries)
    /\ UNCHANGED <<keepReading, lastScan, rmFailed>>
    /\ pc' = [pc EXCEPT ![Pusher] = IF Tail(entries) = <<>> THEN LoopPc ELSE "p_entry"]
    /\ UNCHANGED <<lockV, fsV, cloudV, tickV, rotV, wV, crashed, tSeen, nextRow, events,
                   okRows>>

\* Lines 222-225: os.Remove, whose error is only logged; then the next entry, or
\* the sleep and the loop condition (lines 231 and 191).
PushRemove ==
    /\ Alive /\ pc[Pusher] = "p_remove"
    /\ \/ /\ segs' = [segs EXCEPT ![Head(entries)].loc = "gone"]
          /\ rmFailed' = rmFailed \ {Head(entries)}
          /\ UNCHANGED events
       \/ /\ CanAct
          /\ events' = events + 1
          /\ rmFailed' = rmFailed \cup {Head(entries)}
          /\ UNCHANGED segs
    /\ entries' = Tail(entries)
    /\ UNCHANGED <<keepReading, lastScan>>
    /\ pc' = [pc EXCEPT ![Pusher] = IF Tail(entries) = <<>> THEN LoopPc ELSE "p_entry"]
    /\ UNCHANGED <<lockV, fd, cloudV, tickV, rotV, wV, crashed, tSeen, nextRow, okRows>>

PushFiles == PushScan \/ PushEntry \/ PushPut \/ PushSend \/ PushRemove

\* ------------------------------------------------------------------- Close
\* Close without the send on tickerDone: the final rotation does not wait for
\* rotateOnTimer.
CloseCallNoSignal ==
    /\ Alive /\ pc[Closer] = "c_idle"
    /\ stopped' = TRUE
    /\ pc' = [pc EXCEPT ![Closer] = "c_lock"]
    /\ UNCHANGED <<lockV, fsV, cloudV, tickPending, pushV, rotV, wV, crashed, tSeen,
                   nextRow, events, okRows>>

\* Lines 339-340: ticker.Stop(), then the send on tickerDone (TimerRecvDone).
CloseCall ==
    /\ Alive /\ pc[Closer] = "c_idle"
    /\ stopped' = TRUE
    /\ pc' = [pc EXCEPT ![Closer] = "c_sendTick"]
    /\ UNCHANGED <<lockV, fsV, cloudV, tickPending, pushV, rotV, wV, crashed, tSeen,
                   nextRow, events, okRows>>

\* Lines 343-344: f.canWrite.Lock() and the call of Rotate(false).
CloseLock ==
    /\ Alive /\ pc[Closer] = "c_lock" /\ canWrite = NoProc
    /\ canWrite' = Closer
    /\ pc' = [pc EXCEPT ![Closer] = "rot_try"]
    /\ UNCHANGED <<rotating, fsV, cloudV, tickV, pushV, rotV, wV, crashed, tSeen,
                   nextRow, events, okRows>>

\* Lines 345-353: Unlock; the error is logged; then the send on pusherDone (PushScan).
CloseUnlock ==
    /\ Alive /\ pc[Closer] = "c_unlock"
    /\ canWrite' = NoProc
    /\ pc' = [pc EXCEPT ![Closer] = "c_sendPush"]
    /\ rotOut' = [rotOut EXCEPT ![Closer] = "none"]
    /\ UNCHANGED <<rotating, fsV, cloudV, tickV, pushV, rotSeg, finalRot, rotFailed, wV, crashed,
                   tSeen, nextRow, events, okRows>>

\* Lines 355-357: f.wg.Wait() and the return.
CloseWait ==
    /\ Alive /\ pc[Closer] = "c_wait"
    /\ pc[Timer] = "t_done" /\ pc[Pusher] = "p_done"
    /\ pc' = [pc EXCEPT ![Closer] = "c_returned"]
    /\ UNCHANGED <<lockV, fsV, cloudV, tickV, pushV, rotV, wV, crashed, tSeen,
                   nextRow, events, okRows>>

Close == CloseCall \/ CloseLock \/ CloseUnlock \/ CloseWait

\* A caller of the exported Rotate(true), which takes no write lock.
ManualCall ==
    /\ Alive /\ pc[Manual] = "m_idle"
    /\ CanAct
    /\ events' = events + 1
    /\ pc' = [pc EXCEPT ![Manual] = "rot_try"]
    /\ UNCHANGED <<lockV, fsV, cloudV, tickV, pushV, rotV, wV, crashed, tSeen,
                   nextRow, okRows>>

Next ==
    \/ \E w \in Writers : Write(w)
    \/ \E p \in RotCallers : Rotate(p)
    \/ Tick
    \/ RotateOnTimer
    \/ PushFiles
    \/ Close
    \/ ManualCall

Spec == Init /\ [][Next]_vars

\* A Write that was called runs to its return: the callers' goroutines are
\* scheduled, and sync.Mutex.Lock is granted once the lock stays free.
WriteBody(w) == WriteLock(w) \/ WriteStat(w) \/ WriteFail(w) \/ WriteMeta(w) \/ WriteString(w)

\* The Go scheduler runs every goroutine that can take a step: the two goroutines
\* of NewFileWriter, the caller of Close, and every call of Rotate and Write
\* that was made.
Fairness ==
    /\ WF_vars(Close)
    /\ WF_vars(RotateOnTimer)
    /\ WF_vars(PushFiles)
    /\ \A p \in RotCallers : WF_vars(Rotate(p))
    /\ \A w \in Writers : WF_vars(WriteBody(w))

FairSpec == Spec /\ Fairness

\* ================================================================= claims
\* The row ids of the lines in a sequence of lines.
RowsOf(ls) == {ls[i].row : i \in 1..Len(ls)}
\* The segments whose file content holds a line with row id r.
HoldersOf(r) == {id \in SegIds : r \in RowsOf(segs[id].lines)}
OnDisk(id) == segs[id].loc \in {"open", "closed"}
InRotate(p) == pc[p] \in {"rot_close", "rot_rename", "rot_new"}

\* C1: every record whose Write returned nil is a line of exactly one segment,
\* and that segment's file is still in the open or the closed directory, or it
\* was put to object storage with the record in the content that was put.
NoRecordLost ==
    \A r \in okRows :
        /\ Cardinality(HoldersOf(r)) = 1
        /\ \A id \in HoldersOf(r) :
              /\ Cardinality({i \in 1..Len(segs[id].lines) : segs[id].lines[i].row = r}) = 1
              /\ \/ OnDisk(id)
                 \/ puts[id] > 0 /\ r \in RowsOf(s3[id])

\* C1's case: a written record whose segment left the disk after its upload.
RecordOnlyInStorage ==
    \E r \in okRows : \E id \in HoldersOf(r) :
        segs[id].loc = "gone" /\ puts[id] > 0 /\ r \in RowsOf(s3[id])

\* C2: the byte size of every segment, counting the persisted lines, is at most
\* MaxSizeBytes.
SegmentSizeBound == \A id \in SegIds : Size(id) <= MaxSizeBytes

\* C3: at most one Rotate call is past the rotation lock, and it holds the lock;
\* a call that finds the lock held returns at once, as skipped, and changes
\* neither f.fd nor any file or directory.
OneRotationAtATime ==
    /\ [](\A p, q \in RotCallers :
            InRotate(p) => rotating = p /\ (InRotate(q) => p = q))
    /\ [][\A p \in RotCallers :
            (pc[p] = "rot_try" /\ rotating # NoProc /\ pc'[p] # "rot_try")
            => /\ fd' = fd /\ segs' = segs /\ rotating' = rotating
               /\ pc'[p] = RetPc(p, FALSE)
               /\ (p # Manual => rotOut'[p] = "skipped")]_vars

\* C3's case: one caller is inside the rotation while another was skipped.
RotationSkippedDuringAnother ==
    \E p, q \in RotCallers : p # q /\ InRotate(p) /\ rotOut[q] = "skipped"

CloseReturned == pc[Closer] = "c_returned"
\* Closed segments that hold lines and were never put to object storage.
Unuploaded == {id \in ClosedDir : Size(id) > 0 /\ puts[id] = 0}

TickRotated == segs[tSeen.seg].loc # "open" /\ Len(segs) > tSeen.seg
TickSawData == pc[Timer] = "t_unlock" /\ tSeen.seg # 0 /\ tSeen.size > 0

Places == {<<id, i>> \in SegIds \X (1..(MaxEvents + 1)) : i <= Len(segs[id].lines)}

\* C8: every persisted line carries the name of the segment file that holds it
\* as __batch_file, and a non-empty __row_id that no other line carries.
ProvenanceMetadata ==
    \A x \in Places :
        /\ segs[x[1]].lines[x[2]].batch = x[1]
        /\ segs[x[1]].lines[x[2]].row >= 1
        /\ \A y \in Places : segs[y[1]].lines[y[2]].row = segs[x[1]].lines[x[2]].row => y = x

\* The pump is between the put and the send of segment id (or died there).
SendPending(id) == pc[Pusher] = "p_send" /\ Head(entries) = id

\* C9 as claimed: a segment whose put succeeded has exactly one notification
\* (once the send that follows the put is over), and a segment without a
\* successful put has none.
NotifiedExactlyOnce ==
    \A id \in SegIds :
        /\ puts[id] = 0 => notifs[id] = 0
        /\ (puts[id] > 0 /\ ~(SendPending(id) /\ Alive)) => notifs[id] = 1

\* C9, amended: every notification of a segment follows a successful put of that
\* segment, one notification per put: the notifications never exceed the puts,
\* and fall short of them, by one, only while the send is pending or after it
\* failed.
NotifiedOncePerPut ==
    \A id \in SegIds :
        /\ notifs[id] <= puts[id]
        /\ puts[id] <= notifs[id] + 1
        /\ puts[id] = notifs[id] + 1 => SendPending(id)

\* C9's case: a segment was put and its notification sent.
PutAndNotified == \E id \in SegIds : puts[id] = 1 /\ notifs[id] = 1

\* C10: a closed segment leaves the closed directory only by the pump's Remove,
\* and a non-empty one only after its put and its notification succeeded; after
\* a failed put or send the file is still in the closed directory.
DeleteOnlyAfterHandoff ==
    /\ [](crashed = "pusher_fatal" => segs[Head(entries)].loc = "closed")
    /\ [][\A id \in SegIds :
            (segs[id].loc = "closed" /\ segs'[id].loc # "closed")
            => /\ pc[Pusher] = "p_remove" /\ pc'[Pusher] # "p_remove"
               /\ Head(entries) = id
               /\ segs'[id].loc = "gone"
               /\ Size(id) > 0 => (puts[id] > 0 /\ notifs[id] = puts[id])]_vars

\* C10's case: the pump removed a non-empty segment after put and notification.
RemovedAfterHandoff ==
    \E id \in SegIds : segs[id].loc = "gone" /\ Size(id) > 0 /\ notifs[id] > 0

\* Writer w is between its Lock() and its deferred Unlock().
InWrite(w) == pc[w] \in {"w_stat", "rot_try", "rot_close", "rot_rename", "rot_new",
                         "w_fail", "w_meta", "w_write"}
\* The step is the return of writer w's WriteString, and it changed segment id.
Landed(w, id) ==
    /\ pc[w] = "w_write" /\ pc'[w] = "idle"
    /\ segs'[id].lines # segs[id].lines
WriteExclusion == \A w \in Writers : InWrite(w) => canWrite = w

\* C11 as claimed: the Write calls are serialised by the write lock, and every
\* record lands in the segment that was the open segment (f.fd) when its Write
\* acquired the write lock.
AppendOrdering ==
    /\ []WriteExclusion
    /\ [][\A w \in Writers : \A id \in SegIds : Landed(w, id) => id = wopen[w]]_vars

\* C11, amended: the Write calls are serialised by the write lock, and every
\* record lands, as one appended line, in the segment that is open when the line
\* is written: the segment open when the Write acquired the lock, or a segment
\* created since by a rotation, and always a newer one when the Write's own
\* size-triggered rotation succeeded.
AppendOrderingAfterRotation ==
    /\ []WriteExclusion
    /\ [][\A w \in Writers : \A id \in SegIds :
            Landed(w, id)
            => /\ id = fd /\ segs[id].loc = "open" /\ id >= wopen[w]
               /\ segs'[id].lines = Append(segs[id].lines, Combined(w))
               /\ rotOut[w] = "ok" => id > wopen[w]]_vars

\* C11's case: a Write that rotated at the size limit is about to append to the
\* segment its rotation opened, not to the one open when it took the lock.
WriteAfterOwnRotation ==
    \E w \in Writers :
        /\ pc[w] = "w_write" /\ rotOut[w] = "ok"
        /\ wopen[w] # 0 /\ fd > wopen[w] /\ Usable(fd)

\* The lines of every existing segment are the same after the step.
LinesUnchanged == \A id \in SegIds : segs'[id].lines = segs[id].lines

\* C12: the return of a Write that reports success has appended exactly one line
\* to exactly one segment, the return of a Write that reports an error has
\* appended nothing, and no other step of a Write changes the lines of a segment.
OneLineOrNone ==
    [][\A w \in Writers :
        /\ (pc[w] \in {"w_write", "w_fail"} /\ pc'[w] = "idle")
           => IF wrow[w] \in okRows' \ okRows
              THEN \E id \in SegIds :
                      /\ segs'[id].lines = Append(segs[id].lines, Combined(w))
                      /\ \A other \in SegIds \ {id} : segs'[other] = segs[other]
              ELSE segs' = segs /\ okRows' = okRows
        /\ (InWrite(w) /\ pc[w] # "w_write" /\ pc'[w] # pc[w]) => LinesUnchanged]_vars

\* C12's case: of two Write calls that both returned, one reported success and
\* left its line, the other got a row id and reported the error of its write.
OneWrittenOneFailed ==
    /\ \A w \in Writers : pc[w] = "idle"
    /\ Cardinality(okRows) = 1 /\ nextRow = 3
    /\ Cardinality(Places) = 1

\* C13: Close returns only after rotateOnTimer and pushFiles have both
\* returned, and unless a put or a send of the pump failed, a Close that was
\* called returns.
ShutdownJoin ==
    /\ [](CloseReturned => (pc[Timer] = "t_done" /\ pc[Pusher] = "p_done"))
    /\ (pc[Closer] = "c_sendTick") ~> (CloseReturned \/ crashed = "pusher_fatal")

\* The step is one of writer w's, and it neither passes the Stat of Write, nor
\* appends a line, nor creates a segment, nor reports success.
Rejected(w) ==
    /\ pc'[w] \in {"w_lock", "w_stat", "w_fail", "idle"}
    /\ segs' = segs /\ fd' = fd /\ okRows' = okRows

SchedulerExitsOnlyBySignal ==
    /\ [](crashed # "timer_panic")
    /\ [][(pc[Timer] # "t_done" /\ pc'[Timer] = "t_done")
          => (pc[Timer] = "t_wait" /\ pc[Closer] = "c_sendTick")]_vars

\* Close is inside its call of Rotate(false).
InFinalRotate == pc[Closer] = "rot_try" \/ InRotate(Closer)

\* C16: while Close is inside its Rotate(false), rotateOnTimer has returned and
\* Close holds the write lock; rotateOnTimer takes no step after its return;
\* the final rotation creates no segment and leaves f.fd; pushFiles sees the
\* drain signal only after that rotation has returned, and its listing after
\* the signal holds the segment the final rotation moved, if it is still there.
ShutdownOrdering ==
    /\ [](InFinalRotate => (pc[Timer] = "t_done" /\ canWrite = Closer))
    /\ [](~keepReading => finalRot # "none")
    /\ [][pc[Timer] = "t_done" => pc'[Timer] = "t_done"]_vars
    /\ [][(InFinalRotate /\ pc'[Closer] # pc[Closer])
          => (Len(segs') = Len(segs) /\ fd' = fd)]_vars
    /\ [][(lastScan = "none" /\ lastScan' = "ok" /\ finalRot = "moved")
          => /\ segs[fd].loc \in {"closed", "gone"}
             /\ segs[fd].loc = "closed" => (entries' # <<>> /\ entries'[Len(entries')] = fd)]_vars

\* C16's case: the listing after the drain signal holds the non-empty segment
\* that the final rotation moved.
FinalSegmentListed ==
    /\ ~keepReading /\ lastScan = "ok" /\ finalRot = "moved"
    /\ pc[Pusher] = "p_entry" /\ fd # 0 /\ Head(entries) = fd /\ Size(fd) > 0

\* C17: a Write whose Rotate call was skipped writes to a handle that is still
\* open, on a file in the open directory, and the __batch_file it recorded names
\* that file.
SkippedRotationWriteSafe ==
    [][\A w \in Writers :
        (pc[w] = "w_write" /\ rotOut[w] = "skipped" /\ pc'[w] = "idle")
        => (Usable(fd) /\ segs[fd].loc = "open" /\ wname[w] = fd)]_vars

\* The pump is handling segment id, past its put.
PastPut(id) ==
    pc[Pusher] \in {"p_send", "p_remove"} /\ entries # <<>> /\ Head(entries) = id

\* C18 as claimed: no segment is both put to object storage and on disk.
DiskXorStorage == \A id \in SegIds : ~(puts[id] > 0 /\ OnDisk(id))

\* C18, amended: a segment that was put to object storage and is still on disk
\* is in the closed directory with the content that was put, and either the
\* pump is between its put and its Remove, or its Remove failed.
OnDiskUntilRemoved ==
    \A id \in SegIds :
        (puts[id] > 0 /\ OnDisk(id))
        => /\ segs[id].loc = "closed"
           /\ s3[id] = segs[id].lines
           /\ PastPut(id) \/ id \in rmFailed

\* C18's case: a segment left the disk after its upload, while another one is
\* uploaded and waits for its Remove.
UploadedAwaitingRemove ==
    \E id, other \in SegIds :
        /\ puts[id] > 0 /\ segs[id].loc = "gone"
        /\ puts[other] > 0 /\ segs[other].loc = "closed"
        /\ pc[Pusher] = "p_remove" /\ Head(entries) = other

\* The step is the pump leaving position `at` while it handles an empty segment.
EmptyStep(at) ==
    /\ pc[Pusher] = at /\ Size(Head(entries)) = 0
    /\ (pc'[Pusher] # at \/ entries' # entries)
NeverUploaded == \A id \in SegIds : puts[id] = 0 /\ notifs[id] = 0
\* No Write call was made before Close returned.
NoAppends == nextRow = 1 /\ \A w \in Writers : pc[w] = "idle" \/ wlate[w]

ClosedSegmentsImmutable ==
    /\ [](Usable(fd) => segs[fd].loc = "open")
    /\ [](\A id \in SegIds : puts[id] > 0 => s3[id] = segs[id].lines)
    /\ [][\A id \in SegIds :
            segs[id].loc # "open"
            => (segs'[id].loc # "open" /\ segs'[id].lines = segs[id].lines)]_vars

\* C20's case: a segment with a record was uploaded, and a later Write put a
\* record into a newer segment.
UploadedThenWrittenOn ==
    \E id, newer \in SegIds :
        /\ id < newer /\ puts[id] > 0 /\ Size(id) > 0 /\ Size(newer) > 0

====
